---- MODULE Spec2Model ----
(***************************************************************************)
(* A model of patch-apk.py: the split-APK reconciliation pipeline.         *)
(*                                                                         *)
(* Strings are sequences of tokens.  The tokens "@", "/" and               *)
(* "APKTOOL_DUMMY_" are the only ones the code inspects (startswith, in,   *)
(* split); every other token stands for a run of characters that contains  *)
(* none of them.  Python's None is the reserved one-token string None.     *)
(* For rawREReplace's two patterns the tokens "&amp", ";" and "android"    *)
(* are atomic too.                                                         *)
(*                                                                         *)
(* An XML document is [wellFormed, els]: els is the sequence of its        *)
(* elements in document order (the order of ElementTree's iter()), each    *)
(* [tag, attrib, text, parent]: attrib is a function from attribute names  *)
(* to values, parent the position of the parent element (0 for the root).  *)
(* An attribute name is <<namespace, local name>>, ElementTree's           *)
(* "{namespace}local"; the namespace of an unqualified name is "".         *)
(***************************************************************************)
EXTENDS Integers, Sequences, FiniteSets, TLC

VARIABLES
    \* ---- fixPublicResourceIDs ----
    disk,                 \* base tree: file under res/ -> document on disk
    walk,                 \* the files under res/ in os.walk order
    splitapkpaths,        \* the decompiled split trees, each file -> document
    baseXmlTree,          \* the parsed base public.xml held in memory
    idToDummyName,
    dummyNameToRealName,
    found,
    updated,
    walkIdx,              \* index in walk of the next file of step 4
    raisedKey,            \* the key whose lookup raised KeyError, or None
    dupes,                \* hackRemoveDuplicateStyleEntries: len(dupes)
    written,              \* the files of the base tree written so far
    pc,                   \* position inside the function in progress
    disk0,                \* the base tree as it was when the function was called
    \* ---- main, getTargetAPK, combineSplitAPKs ----
    stage,                \* the call of main or combineSplitAPKs in progress
    args,                 \* the parsed command line
    localapks,            \* the archives of the package, in "pm path" order
    apkIdx,               \* combineSplitAPKs' loop: index of the next archive
    basedirs,             \* the directories of the base tree
    apkfile,              \* the archive main works on
    savedapk,             \* the copy --save-apk / --extract-only leaves behind
    calls,                \* the external commands run so far, with their results
    device                \* what the device holds for the package

mainVars == <<stage, args, localapks, apkIdx, basedirs, apkfile, savedapk, calls, device>>
inputs == <<walk, splitapkpaths, disk0, mainVars>>
fixLocals == <<baseXmlTree, idToDummyName, dummyNameToRealName, found, updated,
               walkIdx, raisedKey>>
vars == <<disk, inputs, fixLocals, dupes, written, pc>>

-----------------------------------------------------------------------------
(* Bounds *)
MaxSplits == 2
MaxDocs == 2
MaxStyles == 2
MaxItems == 3

-----------------------------------------------------------------------------
(* Strings *)
None == <<"<None>">>
Prefix == "APKTOOL_DUMMY_"
NULL_DECODED_DRAWABLE_COLOR == <<"#000000ff">>

StartsWith(val, tok) == Len(val) > 0 /\ val[1] = tok
Contains(val, tok) == \E i \in 1..Len(val) : val[i] = tok

FirstIndex(val, tok) == CHOOSE i \in 1..Len(val) :
                            val[i] = tok /\ \A j \in 1..(i-1) : val[j] # tok

RECURSIVE Split(_, _)
Split(val, tok) ==
    IF ~Contains(val, tok) THEN <<val>>
    ELSE LET i == FirstIndex(val, tok)
         IN  <<SubSeq(val, 1, i-1)>> \o Split(SubSeq(val, i+1, Len(val)), tok)

EmptyMap == [k \in {} |-> None]
Put(m, k, v) == [x \in (DOMAIN m) \cup {k} |-> IF x = k THEN v ELSE m[x]]

Plain(a) == <<"", a>>
HasAttr(el, a) == a \in DOMAIN el.attrib
Node(t, a, x, p) == [tag |-> t, attrib |-> a, text |-> x, parent |-> p]
AttrMap(pairs) == [k \in {q[1] : q \in pairs} |-> (CHOOSE q \in pairs : q[1] = k)[2]]

-----------------------------------------------------------------------------
(* Files *)
(* A file of a tree is [dir, name, ext]: dir is the path of its directory   *)
(* relative to the tree's root, a string of tokens ("/" before every       *)
(* component), and name and ext are the two tokens of the file name.       *)
File(d, n, e) == [dir |-> d, name |-> n, ext |-> e]
Res == <<"/", "res">>
ResValues == Res \o <<"/", "values">>
ResLayout == Res \o <<"/", "layout">>
ResXml == Res \o <<"/", "xml">>
PublicXml == File(ResValues, "public", ".xml")
StylesXml == File(ResValues, "styles", ".xml")
StringsXml == File(ResValues, "strings", ".xml")
ManifestXml == File(<<>>, "AndroidManifest", ".xml")
Lower(e) == IF e = ".XML" THEN ".xml" ELSE e
IsXmlFile(f) == Lower(f.ext) = ".xml"
IsDrawablesXml(f) == f.name = "drawables" /\ f.ext = ".xml"
EmptyTree == [f \in {} |-> None]
(* getroot()'s children: the elements after the root (the tables are flat) *)
Children(doc) == Tail(doc.els)

(* the directories a tree needs for its files: every file's directory and  *)
(* the directories above it                                                *)
Ancestors(d) == {SubSeq(d, 1, k) : k \in {j \in 1..Len(d) : j = Len(d) \/ d[j + 1] = "/"}}
DirsOf(tree) == UNION {Ancestors(f.dir) : f \in DOMAIN tree}

(* os.walk yields a directory's files together: an order of files is one   *)
(* a walk can produce only if the files of a directory are contiguous      *)
WalkOrder(w) ==
    \A i, j, k \in 1..Len(w) : (i < j /\ j < k /\ w[i].dir = w[k].dir) => w[j].dir = w[i].dir

(* An archive is [exists, tree, objection]: tree is what apktool d makes of *)
(* it, objection whether objection patchapk produced it.                   *)
NoApk == [exists |-> FALSE, tree |-> EmptyTree, objection |-> FALSE]
Apk(t) == [exists |-> TRUE, tree |-> t, objection |-> FALSE]
NoArgs == [disable_styles_hack |-> FALSE, extract_only |-> FALSE,
           no_enable_user_certs |-> FALSE, save_apk |-> FALSE]
Original == [state |-> "original", apk |-> NoApk]

(* the state of main's variables when one function is run on its own *)
Alone(fn) ==
    /\ stage = fn
    /\ args = NoArgs
    /\ localapks = <<>>
    /\ apkIdx = 0
    /\ basedirs = DirsOf(disk)
    /\ apkfile = NoApk
    /\ savedapk = NoApk
    /\ calls = <<>>
    /\ device = Original

-----------------------------------------------------------------------------
(* fixPublicResourceIDs, step 1 *)
IsDeclaration(el) == HasAttr(el, Plain("name")) /\ HasAttr(el, Plain("id"))

RecordDummy(el, maps) ==
    IF /\ IsDeclaration(el)
       /\ StartsWith(el.attrib[Plain("name")], Prefix)
       /\ el.attrib[Plain("name")] \notin DOMAIN maps.idToDummyName
    THEN [idToDummyName |-> Put(maps.idToDummyName, el.attrib[Plain("id")], el.attrib[Plain("name")]),
          dummyNameToRealName |-> Put(maps.dummyNameToRealName, el.attrib[Plain("name")], None)]
    ELSE maps

RECURSIVE LoadDummies(_, _)
LoadDummies(els, maps) ==
    IF els = <<>> THEN maps
    ELSE LoadDummies(Tail(els), RecordDummy(Head(els), maps))

(* step 2 *)
ResolveEntryFirstWins(el, i2d, acc) ==
    IF /\ IsDeclaration(el) /\ el.attrib[Plain("id")] \in DOMAIN i2d
       /\ acc.map[i2d[el.attrib[Plain("id")]]] = None
    THEN [map |-> Put(acc.map, i2d[el.attrib[Plain("id")]], el.attrib[Plain("name")]),
          found |-> acc.found + 1]
    ELSE acc

ResolveEntry(el, i2d, acc) ==
    IF IsDeclaration(el) /\ el.attrib[Plain("id")] \in DOMAIN i2d
    THEN [map |-> Put(acc.map, i2d[el.attrib[Plain("id")]], el.attrib[Plain("name")]),
          found |-> acc.found + 1]
    ELSE acc

RECURSIVE ResolveTable(_, _, _)
ResolveTable(els, i2d, acc) ==
    IF els = <<>> THEN acc
    ELSE ResolveTable(Tail(els), i2d, ResolveEntry(Head(els), i2d, acc))

RECURSIVE ResolveSplits(_, _, _)
ResolveSplits(splits, i2d, acc) ==
    IF splits = <<>> THEN acc
    ELSE ResolveSplits(Tail(splits), i2d,
                       IF PublicXml \in DOMAIN Head(splits)
                       THEN ResolveTable(Children(Head(splits)[PublicXml]), i2d, acc)
                       ELSE acc)

(* step 3 *)
IsResolvedName(n, d2r) == n \in DOMAIN d2r /\ d2r[n] # None

RenameEntry(el, d2r) ==
    IF IsDeclaration(el) /\ IsResolvedName(el.attrib[Plain("name")], d2r)
    THEN [el EXCEPT !.attrib[Plain("name")] = d2r[el.attrib[Plain("name")]]]
    ELSE el

RenameTable(els, d2r) == [i \in 1..Len(els) |-> RenameEntry(els[i], d2r)]

RenameTree(tree, d2r) ==
    [tree EXCEPT !.els = <<Head(tree.els)>> \o RenameTable(Children(tree), d2r)]

CountRenamed(els, d2r) ==
    Cardinality({i \in 1..Len(els) :
        IsDeclaration(els[i]) /\ IsResolvedName(els[i].attrib[Plain("name")], d2r)})

-----------------------------------------------------------------------------
(* step 4: one value.  The result is [raised, key, val, hit]. *)
Same(val) == [raised |-> FALSE, key |-> None, val |-> val, hit |-> FALSE]
Raise(k) == [raised |-> TRUE, key |-> k, val |-> None, hit |-> FALSE]
Hit(val) == [raised |-> FALSE, key |-> None, val |-> val, hit |-> TRUE]

IsDummyRef(val) ==
    /\ StartsWith(val, "@")
    /\ Contains(val, "/")
    /\ StartsWith(Split(val, "/")[2], Prefix)

RefName(val) == Split(val, "/")[2]

RewriteRef(val, d2r) == Split(val, "/")[1] \o <<"/">> \o d2r[RefName(val)]

RewriteBare(val, d2r) ==
    IF StartsWith(val, Prefix)
    THEN IF val \notin DOMAIN d2r THEN Raise(val)
         ELSE IF d2r[val] # None THEN Hit(d2r[val]) ELSE Same(val)
    ELSE Same(val)

RewriteAttrValue(val, d2r) ==
    IF IsDummyRef(val)
    THEN IF RefName(val) \notin DOMAIN d2r THEN Raise(RefName(val))
         ELSE IF d2r[RefName(val)] # None THEN Hit(RewriteRef(val, d2r))
         ELSE RewriteBare(val, d2r)
    ELSE RewriteBare(val, d2r)

RewriteText(val, d2r) ==
    IF val # None /\ IsDummyRef(val)
    THEN IF RefName(val) \notin DOMAIN d2r THEN Raise(RefName(val))
         ELSE IF d2r[RefName(val)] # None THEN Hit(RewriteRef(val, d2r))
         ELSE Same(val)
    ELSE Same(val)

(* the drawables fix of the attribute loop *)
PatchNullDrawable(f, el) ==
    IF IsDrawablesXml(f) /\ HasAttr(el, Plain("name")) /\ el.text = None
    THEN NULL_DECODED_DRAWABLE_COLOR
    ELSE el.text

(* step 4: one element.  The result is [raised, key, el, n]. *)
RewriteElement(f, el, d2r) ==
    LET ra == [a \in DOMAIN el.attrib |-> RewriteAttrValue(el.attrib[a], d2r)]
        bad == {a \in DOMAIN el.attrib : ra[a].raised}
        rt == RewriteText(PatchNullDrawable(f, el), d2r)
    IN  IF bad # {}
        THEN [raised |-> TRUE, key |-> ra[CHOOSE a \in bad : TRUE].key, el |-> el, n |-> 0]
        ELSE IF rt.raised
        THEN [raised |-> TRUE, key |-> rt.key, el |-> el, n |-> 0]
        ELSE [raised |-> FALSE, key |-> None,
              el |-> [el EXCEPT !.attrib = [a \in DOMAIN el.attrib |-> ra[a].val],
                                !.text = rt.val],
              n |-> Cardinality({a \in DOMAIN el.attrib : ra[a].hit})
                    + (IF rt.hit THEN 1 ELSE 0)]

RECURSIVE SumN(_, _)
SumN(rs, i) == IF i = 0 THEN 0 ELSE rs[i].n + SumN(rs, i - 1)

(* ElementTree.parse accepts a document that is otherwise well formed and  *)
(* holds no ampersand apktool left unescaped: the token "&amp" not followed *)
(* by the token ";"                                                        *)
HasBareAmp(val) ==
    \E i \in 1..Len(val) : val[i] = "&amp" /\ (i = Len(val) \/ val[i + 1] # ";")
Parses(doc) ==
    /\ doc.wellFormed
    /\ \A i \in 1..Len(doc.els) :
           /\ ~HasBareAmp(doc.els[i].text)
           /\ \A a \in DOMAIN doc.els[i].attrib : ~HasBareAmp(doc.els[i].attrib[a])

(* step 4: one file of the walk.  status is "skipped" (not an .xml file),   *)
(* "parseerror" (caught, the file is skipped), "keyerror" (not caught) or *)
(* "ok"; doc is what the disk holds afterwards.                            *)
RewriteFile(f, doc, d2r) ==
    IF ~IsXmlFile(f)
    THEN [status |-> "skipped", key |-> None, doc |-> doc, n |-> 0]
    ELSE IF ~Parses(doc)
    THEN [status |-> "parseerror", key |-> None, doc |-> doc, n |-> 0]
    ELSE LET rs == [i \in 1..Len(doc.els) |-> RewriteElement(f, doc.els[i], d2r)]
             bad == {i \in 1..Len(doc.els) : rs[i].raised}
             n == SumN(rs, Len(doc.els))
         IN  IF bad # {}
             THEN [status |-> "keyerror",
                   key |-> rs[CHOOSE i \in bad : \A j \in bad : i <= j].key,
                   doc |-> doc, n |-> 0]
             ELSE [status |-> "ok", key |-> None,
                   doc |-> IF n > 0
                           THEN [doc EXCEPT !.els = [i \in 1..Len(doc.els) |-> rs[i].el]]
                           ELSE doc,
                   n |-> n]

-----------------------------------------------------------------------------
(* Inputs of fixPublicResourceIDs *)
P1 == <<Prefix, "1">>
P2 == <<Prefix, "2">>
P3 == <<Prefix, "3">>
I1 == <<"0x7f010001">>
I2 == <<"0x7f010002">>
AppName == <<"app_name">>
Title == <<"title">>
Ref(type, name) == <<"@", type, "/">> \o name

Root == Node("resources", EmptyMap, <<"\n">>, 0)
Public(id, name) ==
    Node("public", AttrMap({<<Plain("type"), <<"string">>>>, <<Plain("id"), id>>,
                            <<Plain("name"), name>>}), None, 1)
Elem(a, v, t) == Node("item", AttrMap({<<Plain(a), v>>}), t, 1)
Xml(children) == [wellFormed |-> TRUE, els |-> <<Root>> \o children]
SplitTree(children) == [f \in {PublicXml} |-> Xml(children)]

BaseTableChoices ==
    { <<Public(I1, P1)>>,
      <<Public(I1, P1), Public(I2, P2)>>,
      <<Public(I1, P1), Public(I2, P1)>>,
      <<Public(I1, P1), Public(I2, <<"app_icon">>)>> }

SplitTableChoices ==
    { EmptyTree,
      SplitTree(<<Public(I1, AppName)>>),
      SplitTree(<<Public(I1, Title)>>),
      SplitTree(<<Public(I1, P1)>>),
      SplitTree(<<Public(I1, P2), Public(I2, AppName)>>),
      SplitTree(<<Public(I2, Title)>>) }

DocChoices ==
    { [file |-> File(ResLayout, "main", ".xml"),
       doc  |-> Xml(<<Elem("text", Ref("string", P1), None)>>)],
      [file |-> File(ResValues, "ids", ".xml"),
       doc  |-> Xml(<<Elem("name", P1, P1)>>)],
      [file |-> File(ResValues, "strings", ".xml"),
       doc  |-> Xml(<<Elem("name", <<"label">>, Ref("string", P1))>>)],
      [file |-> File(ResLayout, "extra", ".xml"),
       doc  |-> Xml(<<Elem("text", Ref("string", P3), None)>>)],
      [file |-> File(ResLayout, "other", ".xml"),
       doc  |-> Xml(<<Elem("text", Ref("string", P2), None)>>)],
      [file |-> File(ResValues, "drawables", ".xml"),
       doc  |-> Xml(<<Elem("name", <<"ic_launcher">>, None)>>)],
      [file |-> File(Res \o <<"/", "values-v21">>, "drawables", ".xml"),
       doc  |-> Xml(<<Elem("name", P1, None)>>)],
      [file |-> File(ResXml, "broken", ".xml"),
       doc  |-> [wellFormed |-> FALSE, els |-> <<Elem("text", Ref("string", P1), None)>>]] }

SeqsUpTo(S, n) == UNION {[1..k -> S] : k \in 1..n}
Injective(s) == \A i, j \in 1..Len(s) : s[i] = s[j] => i = j
InsertAt(s, k, x) == SubSeq(s, 1, k - 1) \o <<x>> \o SubSeq(s, k, Len(s))

SplitSeqs == SeqsUpTo(SplitTableChoices, MaxSplits)
DocSeqs == {s \in SeqsUpTo(DocChoices, MaxDocs) : Injective(s)}

(* the tables are varied over one document, the documents over a few tables *)
FixInputs ==
    {[base |-> b, splits |-> s, docs |-> d] :
        b \in BaseTableChoices, s \in SplitSeqs,
        d \in {<<CHOOSE c \in DocChoices : c.file.name = "main">>}}
    \cup
    {[base |-> b, splits |-> s, docs |-> d] :
        b \in {<<Public(I1, P1), Public(I2, P2)>>, <<Public(I1, P1), Public(I2, P1)>>},
        s \in {<<SplitTree(<<Public(I1, AppName)>>)>>,
               <<SplitTree(<<Public(I1, P2), Public(I2, AppName)>>)>>},
        d \in DocSeqs}

FixLocalsIdle ==
    /\ baseXmlTree = None
    /\ idToDummyName = EmptyMap
    /\ dummyNameToRealName = EmptyMap
    /\ found = 0
    /\ updated = 0
    /\ walkIdx = 0
    /\ raisedKey = None

FilesOf(docs) == [i \in 1..Len(docs) |-> docs[i].file]
DocOf(docs, f) == (CHOOSE i \in 1..Len(docs) : docs[i].file = f)

InitFix ==
    /\ \E inp \in FixInputs :
         /\ splitapkpaths = inp.splits
         /\ \/ \E k \in 1..(Len(inp.docs) + 1) :
                 /\ walk = InsertAt(FilesOf(inp.docs), k, PublicXml)
                 /\ disk = [f \in {inp.docs[i].file : i \in 1..Len(inp.docs)} \cup {PublicXml} |->
                              IF f = PublicXml THEN Xml(inp.base)
                              ELSE inp.docs[DocOf(inp.docs, f)].doc]
            \/ /\ inp.base = <<Public(I1, P1)>>
               /\ Len(inp.splits) = 1
               /\ walk = FilesOf(inp.docs)
               /\ disk = [f \in {inp.docs[i].file : i \in 1..Len(inp.docs)} |->
                              inp.docs[DocOf(inp.docs, f)].doc]
    /\ WalkOrder(walk)
    /\ disk0 = disk
    /\ FixLocalsIdle
    /\ dupes = 0
    /\ written = {}
    /\ pc = "start"
    /\ Alone("fixPublicResourceIDs")

-----------------------------------------------------------------------------
(* fixPublicResourceIDs *)
Bail ==
    /\ pc = "start"
    /\ PublicXml \notin DOMAIN disk
    /\ pc' = "done"
    /\ UNCHANGED <<disk, inputs, fixLocals, dupes, written>>

Step1 ==
    /\ pc = "start"
    /\ PublicXml \in DOMAIN disk
    /\ baseXmlTree' = disk[PublicXml]
    /\ LET maps == LoadDummies(Children(disk[PublicXml]),
                       [idToDummyName |-> EmptyMap, dummyNameToRealName |-> EmptyMap])
       IN  /\ idToDummyName' = maps.idToDummyName
           /\ dummyNameToRealName' = maps.dummyNameToRealName
    /\ pc' = "step2"
    /\ UNCHANGED <<disk, inputs, found, updated, walkIdx, raisedKey, dupes, written>>

Step2 ==
    /\ pc = "step2"
    /\ LET r == ResolveSplits(splitapkpaths, idToDummyName,
                              [map |-> dummyNameToRealName, found |-> 0])
       IN  /\ dummyNameToRealName' = r.map
           /\ found' = r.found
    /\ pc' = "step3"
    /\ UNCHANGED <<disk, inputs, baseXmlTree, idToDummyName, updated, walkIdx,
                   raisedKey, dupes, written>>

Step3 ==
    /\ pc = "step3"
    /\ LET t == RenameTree(baseXmlTree, dummyNameToRealName)
       IN  /\ baseXmlTree' = t
           /\ disk' = [disk EXCEPT ![PublicXml] = t]
    /\ written' = written \cup {PublicXml}
    /\ updated' = CountRenamed(Children(baseXmlTree), dummyNameToRealName)
    /\ pc' = "step4"
    /\ UNCHANGED <<inputs, idToDummyName, dummyNameToRealName, found, walkIdx,
                   raisedKey, dupes>>

Step4Begin ==
    /\ pc = "step4"
    /\ updated' = 0
    /\ walkIdx' = 1
    /\ pc' = "walk"
    /\ UNCHANGED <<disk, inputs, baseXmlTree, idToDummyName, dummyNameToRealName,
                   found, raisedKey, dupes, written>>

Step4File ==
    /\ pc = "walk"
    /\ walkIdx <= Len(walk)
    /\ LET f == walk[walkIdx]
           r == RewriteFile(f, disk[f], dummyNameToRealName)
       IN  IF r.status = "keyerror"
           THEN /\ pc' = "raised"
                /\ raisedKey' = r.key
                /\ UNCHANGED <<disk, updated, walkIdx, written>>
           ELSE /\ disk' = [disk EXCEPT ![f] = r.doc]
                /\ written' = IF r.n > 0 THEN written \cup {f} ELSE written
                /\ updated' = updated + r.n
                /\ walkIdx' = walkIdx + 1
                /\ UNCHANGED <<pc, raisedKey>>
    /\ UNCHANGED <<inputs, baseXmlTree, idToDummyName, dummyNameToRealName, found, dupes>>

Step4End ==
    /\ pc = "walk"
    /\ walkIdx > Len(walk)
    /\ pc' = "done"
    /\ UNCHANGED <<disk, inputs, fixLocals, dupes, written>>

NextFix == Bail \/ Step1 \/ Step2 \/ Step3 \/ Step4Begin \/ Step4File \/ Step4End

SpecFix == InitFix /\ [][NextFix]_vars

-----------------------------------------------------------------------------
(* Removing elements from a document: Element.remove drops the element with *)
(* everything below it; the positions of the others shift.                 *)
RECURSIVE Below(_, _, _)
Below(els, S, i) ==
    i > 0 /\ (i \in S \/ Below(els, S, els[i].parent))

RECURSIVE Keep(_, _)
Keep(s, K) ==
    IF s = <<>> THEN <<>>
    ELSE Keep(SubSeq(s, 1, Len(s) - 1), K)
         \o (IF Len(s) \in K THEN <<s[Len(s)]>> ELSE <<>>)

RemoveEls(els, S) ==
    LET kept == {i \in 1..Len(els) : ~Below(els, S, i)}
        pos(i) == Cardinality({j \in kept : j <= i})
    IN  Keep([i \in 1..Len(els) |->
                 [els[i] EXCEPT !.parent = IF els[i].parent = 0 THEN 0
                                           ELSE pos(els[i].parent)]], kept)

ChildrenOf(els, p) == {i \in 1..Len(els) : els[i].parent = p}

-----------------------------------------------------------------------------
(* hackRemoveDuplicateStyleEntries *)
(* findall("style"): the root's children with that tag *)
StyleEls(doc) == {i \in ChildrenOf(doc.els, 1) : doc.els[i].tag = "style"}

(* the scan of one style's children from position i on; acc is             *)
(* [names, dupes, raised]: a child without a name attribute reaches the    *)
(* else branch, whose itemEl.attrib["name"] raises KeyError                *)
RECURSIVE ScanItems(_, _, _, _)
ScanItems(els, st, i, acc) ==
    IF i > Len(els) \/ acc.raised THEN acc
    ELSE IF els[i].parent # st THEN ScanItems(els, st, i + 1, acc)
    ELSE IF HasAttr(els[i], Plain("name")) /\ els[i].attrib[Plain("name")] \in acc.names
    THEN ScanItems(els, st, i + 1, [acc EXCEPT !.dupes = @ \cup {i}])
    ELSE IF ~HasAttr(els[i], Plain("name"))
    THEN [acc EXCEPT !.raised = TRUE]
    ELSE ScanItems(els, st, i + 1,
                   [acc EXCEPT !.names = @ \cup {els[i].attrib[Plain("name")]}])

RECURSIVE ScanStyles(_, _, _)
ScanStyles(doc, i, acc) ==
    IF i > Len(doc.els) \/ acc.raised THEN acc
    ELSE IF i \in StyleEls(doc)
    THEN ScanStyles(doc, i + 1,
                    ScanItems(doc.els, i, 1, [acc EXCEPT !.names = {}]))
    ELSE ScanStyles(doc, i + 1, acc)

(* the whole function on a base tree d: [status, disk, dupes, wrote] *)
HackRemoveDuplicateStyleEntries(d) ==
    IF StylesXml \notin DOMAIN d
    THEN [status |-> "done", disk |-> d, dupes |-> 0, wrote |-> FALSE]
    ELSE LET r == ScanStyles(d[StylesXml], 1,
                             [names |-> {}, dupes |-> {}, raised |-> FALSE])
         IN  IF r.raised
             THEN [status |-> "raised", disk |-> d, dupes |-> 0, wrote |-> FALSE]
             ELSE IF Cardinality(r.dupes) > 0
             THEN [status |-> "done",
                   disk |-> [d EXCEPT ![StylesXml].els = RemoveEls(@, r.dupes)],
                   dupes |-> Cardinality(r.dupes), wrote |-> TRUE]
             ELSE [status |-> "done", disk |-> d, dupes |-> 0, wrote |-> FALSE]

HackStyles ==
    /\ pc = "start"
    /\ LET r == HackRemoveDuplicateStyleEntries(disk)
       IN  /\ pc' = r.status
           /\ disk' = r.disk
           /\ dupes' = r.dupes
           /\ written' = IF r.wrote THEN written \cup {StylesXml} ELSE written
    /\ UNCHANGED <<inputs, fixLocals>>

(* Inputs: styles.xml with up to MaxStyles root children of up to MaxItems  *)
(* items each                                                              *)
Item(n, v) == Node("item", AttrMap({<<Plain("name"), <<n>>>>}), Ref("color", <<v>>), 0)
ItemChoices == { Item("colorPrimary", "a"), Item("colorPrimary", "b"),
                 Item("borderWarning", "a"),
                 Node("item", EmptyMap, Ref("color", <<"a">>), 0) }
ItemSeqs == {<<>>} \cup SeqsUpTo(ItemChoices, MaxItems)
StyleChoices == {[tag |-> t, items |-> its] :
                    t \in {"style", "declare-styleable"}, its \in ItemSeqs}

RECURSIVE BuildStyles(_, _)
BuildStyles(styles, els) ==
    IF styles = <<>> THEN els
    ELSE BuildStyles(Tail(styles),
            els \o <<Node(Head(styles).tag, EmptyMap, <<"\n">>, 1)>>
                \o [i \in 1..Len(Head(styles).items) |->
                       [Head(styles).items[i] EXCEPT !.parent = Len(els) + 1]])

StylesDoc(styles) == [wellFormed |-> TRUE, els |-> BuildStyles(styles, <<Root>>)]

InitStyles ==
    /\ \/ \E ss \in SeqsUpTo(StyleChoices, MaxStyles) :
            disk = [f \in {StylesXml} |-> StylesDoc(ss)]
       \/ disk = [f \in {} |-> StylesDoc(<<>>)]
    /\ walk = <<>>
    /\ splitapkpaths = <<>>
    /\ disk0 = disk
    /\ FixLocalsIdle
    /\ dupes = 0
    /\ written = {}
    /\ pc = "start"
    /\ Alone("hackRemoveDuplicateStyleEntries")

NextStyles == HackStyles

SpecStyles == InitStyles /\ [][NextStyles]_vars

(* a style's children as they stand in a document, without their positions *)
ItemsOf(doc, st) ==
    LET idx == {i \in 1..Len(doc.els) : doc.els[i].parent = st}
    IN  Keep([i \in 1..Len(doc.els) |-> [doc.els[i] EXCEPT !.parent = 0]], idx)
NthStyle(doc, k) ==
    CHOOSE i \in StyleEls(doc) : Cardinality({j \in StyleEls(doc) : j <= i}) = k

(* the first occurrences, in document order, of each item name of a style  *)
FirstOccurrences(items) ==
    Keep(items, {i \in 1..Len(items) :
        ~\E j \in 1..(i - 1) :
            /\ HasAttr(items[i], Plain("name")) /\ HasAttr(items[j], Plain("name"))
            /\ items[j].attrib[Plain("name")] = items[i].attrib[Plain("name")]})

(* C6 as stated: for every styles document the function completes; then    *)
(* every style holds exactly the first occurrences of its item names, the  *)
(* reported count is the number of items removed, and the document is      *)
(* written back only when that count is above zero.                        *)
C6_FirstOccurrencesKept ==
    (pc # "start" /\ StylesXml \in DOMAIN disk0) =>
        /\ pc = "done"
        /\ Cardinality(StyleEls(disk[StylesXml])) = Cardinality(StyleEls(disk0[StylesXml]))
        /\ \A k \in 1..Cardinality(StyleEls(disk0[StylesXml])) :
              ItemsOf(disk[StylesXml], NthStyle(disk[StylesXml], k))
                = FirstOccurrences(ItemsOf(disk0[StylesXml], NthStyle(disk0[StylesXml], k)))
        /\ dupes = Len(disk0[StylesXml].els) - Len(disk[StylesXml].els)
        /\ (StylesXml \in written) <=> (dupes > 0)

-----------------------------------------------------------------------------
(* disableApkSplitting.  The manifest document carries the namespace        *)
(* declarations iterparse reports, prefix -> URI; ns + "x" is <<ns, "x">>. *)
AndroidNs == "http://schemas.android.com/apk/res/android"
SplitsRequired == <<"com.android.vending.splits.required">>
Splits == <<"com.android.vending.splits">>

PatchApplication(el, ns) ==
    LET dropped == [a \in (DOMAIN el.attrib) \ {<<ns, "isSplitRequired">>} |-> el.attrib[a]]
    IN  [el EXCEPT !.attrib =
            [a \in DOMAIN dropped |->
                IF a = <<ns, "extractNativeLibs">> THEN <<"true">> ELSE dropped[a]]]

IsSplitMarker(el, ns) ==
    /\ HasAttr(el, <<ns, "name">>)
    /\ \/ el.attrib[<<ns, "name">>] = SplitsRequired
       \/ el.attrib[<<ns, "name">>] = Splits

(* the loop over tree.iter() from position i on; acc is [els, appEl,        *)
(* elsToRemove], appEl = 0 standing for None                               *)
RECURSIVE ScanManifest(_, _, _)
ScanManifest(ns, i, acc) ==
    IF i > Len(acc.els) THEN acc
    ELSE IF acc.els[i].tag = "application"
    THEN ScanManifest(ns, i + 1,
            [acc EXCEPT !.appEl = i, !.els[i] = PatchApplication(@, ns)])
    ELSE IF acc.appEl # 0 /\ acc.els[i].tag = "meta-data" /\ IsSplitMarker(acc.els[i], ns)
    THEN ScanManifest(ns, i + 1, [acc EXCEPT !.elsToRemove = @ \cup {i}])
    ELSE ScanManifest(ns, i + 1, acc)

(* the whole function on a base tree d: [status, disk]; appEl.remove(el)    *)
(* raises ValueError for an el that is no child of appEl, and the write of *)
(* line 627 is then not reached                                            *)
DisableApkSplitting(d) ==
    IF "android" \notin DOMAIN d[ManifestXml].namespaces
    THEN [status |-> "raised", disk |-> d]
    ELSE LET r == ScanManifest(d[ManifestXml].namespaces["android"], 1,
                      [els |-> d[ManifestXml].els, appEl |-> 0, elsToRemove |-> {}])
         IN  IF \E i \in r.elsToRemove : r.els[i].parent # r.appEl
             THEN [status |-> "raised", disk |-> d]
             ELSE [status |-> "done",
                   disk |-> [d EXCEPT ![ManifestXml].els = RemoveEls(r.els, r.elsToRemove)]]

DisableSplitting ==
    /\ pc = "start"
    /\ LET r == DisableApkSplitting(disk)
       IN  /\ pc' = r.status
           /\ disk' = r.disk
           /\ written' = IF r.status = "done" THEN written \cup {ManifestXml} ELSE written
    /\ UNCHANGED <<inputs, fixLocals, dupes>>

(* Inputs: manifests *)
Meta(n, p) == Node("meta-data", AttrMap({<<<<AndroidNs, "name">>, n>>,
                                         <<<<AndroidNs, "value">>, <<"x">>>>}), None, p)
AppAttrChoices ==
    {AttrMap({<<<<AndroidNs, "label">>, Ref("string", AppName)>>} \cup sr \cup nl) :
        sr \in {{}, {<<<<AndroidNs, "isSplitRequired">>, <<"true">>>>}},
        nl \in {{}, {<<<<AndroidNs, "extractNativeLibs">>, <<"false">>>>},
                    {<<<<AndroidNs, "extractNativeLibs">>, <<"true">>>>}}}
MetaChoices == { <<>>, <<Splits>>, <<SplitsRequired>>, <<<<"other.key">>>>,
                 <<Splits, SplitsRequired>>, <<<<"other.key">>, Splits>>,
                 <<Splits, <<"other.key">>, SplitsRequired>> }

ManifestDoc(pre, appAttrs, metas, act) ==
    LET a == IF pre THEN 3 ELSE 2
    IN  [wellFormed |-> TRUE,
         namespaces |-> [android |-> AndroidNs],
         els |-> <<Node("manifest", AttrMap({<<Plain("package"), <<"com.foo.bar">>>>}),
                        <<"\n">>, 0)>>
                 \o (IF pre THEN <<Meta(Splits, 1)>> ELSE <<>>)
                 \o <<Node("application", appAttrs, <<"\n">>, 1)>>
                 \o [i \in 1..Len(metas) |-> Meta(metas[i], a)]
                 \o (IF act = "none" THEN <<>>
                     ELSE <<Node("activity",
                                 AttrMap({<<<<AndroidNs, "name">>, <<".Main">>>>}),
                                 <<"\n">>, a)>>
                          \o (IF act = "nested"
                              THEN <<Meta(SplitsRequired, a + Len(metas) + 1)>>
                              ELSE <<>>))]

ManifestChoices ==
    {ManifestDoc(pre, at, ms, act) :
        pre \in BOOLEAN, at \in AppAttrChoices, ms \in MetaChoices,
        act \in {"none", "plain", "nested"}}

InitManifest ==
    /\ \E m \in ManifestChoices : disk = [f \in {ManifestXml} |-> m]
    /\ walk = <<>>
    /\ splitapkpaths = <<>>
    /\ disk0 = disk
    /\ FixLocalsIdle
    /\ dupes = 0
    /\ written = {}
    /\ pc = "start"
    /\ Alone("disableApkSplitting")

NextManifest == DisableSplitting

SpecManifest == InitManifest /\ [][NextManifest]_vars

Applications(doc) == {i \in 1..Len(doc.els) : doc.els[i].tag = "application"}
Markers(doc) == {i \in 1..Len(doc.els) :
                    /\ doc.els[i].tag = "meta-data"
                    /\ IsSplitMarker(doc.els[i], AndroidNs)}

(* C7 as stated: after disableApkSplitting the application element has no  *)
(* isSplitRequired attribute and has extractNativeLibs set to "true",      *)
(* whatever attributes it carried before.                                  *)
C7_ApplicationFlags ==
    pc = "done" =>
        \A i \in Applications(disk[ManifestXml]) :
            LET el == disk[ManifestXml].els[i] IN
            /\ ~HasAttr(el, <<AndroidNs, "isSplitRequired">>)
            /\ HasAttr(el, <<AndroidNs, "extractNativeLibs">>)
            /\ el.attrib[<<AndroidNs, "extractNativeLibs">>] = <<"true">>

(* C8 as stated: disableApkSplitting completes without error and leaves no *)
(* meta-data element named com.android.vending.splits or                   *)
(* com.android.vending.splits.required anywhere in the manifest.           *)
C8_NoSplitMarkers ==
    pc # "start" =>
        /\ pc = "done"
        /\ Markers(disk[ManifestXml]) = {}

-----------------------------------------------------------------------------
(* Claims about step 2 and step 3 *)
RECURSIVE Flatten(_)
Flatten(splits) ==
    IF splits = <<>> THEN <<>>
    ELSE (IF PublicXml \in DOMAIN Head(splits)
          THEN Children(Head(splits)[PublicXml]) ELSE <<>>)
         \o Flatten(Tail(splits))

(* the split entries in scan order, and those of them that declare id *)
SplitScan == Flatten(splitapkpaths)
Declaring(id) == {i \in 1..Len(SplitScan) :
                    IsDeclaration(SplitScan[i]) /\ SplitScan[i].attrib[Plain("id")] = id}
DeclaringName(n) == UNION {Declaring(id) : id \in {x \in DOMAIN idToDummyName :
                                                     idToDummyName[x] = n}}
MinOf(S) == CHOOSE i \in S : \A j \in S : i <= j
MaxOf(S) == CHOOSE i \in S : \A j \in S : i >= j
Resolved == pc \in {"step3", "step4", "walk", "done", "raised"}

(* the entries of the base public table as they were, by position *)
BaseEntries0 == Children(disk0[PublicXml])
WrittenEntries == Children(disk[PublicXml])

-----------------------------------------------------------------------------
(* Claims about the reference rewrite (step 4) *)
Terminated == pc \in {"done", "raised"}
HasPublic == PublicXml \in DOMAIN disk0
TrueName(n) == n # None /\ ~StartsWith(n, Prefix)

(* a document as the walk of step 4 finds it: step 3 has rewritten public.xml *)
DocAtWalkStart(f) == IF f = PublicXml THEN baseXmlTree ELSE disk0[f]
ParsedFiles == {f \in DOMAIN disk0 : IsXmlFile(f) /\ disk0[f].wellFormed}

(* val is exactly '@<type>/n' *)
IsRefTo(val, n) == val # None /\ IsDummyRef(val)
                   /\ Len(Split(val, "/")) = 2 /\ RefName(val) = n
Retarget(val, t) == Split(val, "/")[1] \o <<"/">> \o t

(* C2 as stated: when a placeholder name n of the base table is resolved to *)
(* a true name t, then once fixPublicResourceIDs has ended every base entry *)
(* named n is named t and every attribute value and element text that was  *)
(* '@<type>/n' in a parseable document under res is '@<type>/t'.           *)
C2_ResolvedEverywhere ==
    (Terminated /\ HasPublic) =>
        \A n \in DOMAIN dummyNameToRealName :
            TrueName(dummyNameToRealName[n]) =>
                /\ \A i \in 1..Len(BaseEntries0) :
                      (IsDeclaration(BaseEntries0[i]) /\ BaseEntries0[i].attrib[Plain("name")] = n)
                      => WrittenEntries[i].attrib[Plain("name")] = dummyNameToRealName[n]
                /\ \A f \in ParsedFiles : \A i \in 1..Len(disk0[f].els) :
                      /\ \A a \in DOMAIN disk0[f].els[i].attrib :
                            IsRefTo(disk0[f].els[i].attrib[a], n)
                            => disk[f].els[i].attrib[a]
                                 = Retarget(disk0[f].els[i].attrib[a], dummyNameToRealName[n])
                      /\ IsRefTo(disk0[f].els[i].text, n)
                            => disk[f].els[i].text
                                 = Retarget(disk0[f].els[i].text, dummyNameToRealName[n])

(* C3 as stated: after a pass that ran to its end, every attribute value    *)
(* and every element text that was a bare resolved placeholder name is the *)
(* true name.                                                              *)
C3_BareFormAlike ==
    (pc = "done" /\ HasPublic) =>
        \A n \in DOMAIN dummyNameToRealName :
            dummyNameToRealName[n] # None =>
                \A f \in ParsedFiles : \A i \in 1..Len(DocAtWalkStart(f).els) :
                    /\ \A a \in DOMAIN DocAtWalkStart(f).els[i].attrib :
                          DocAtWalkStart(f).els[i].attrib[a] = n
                          => disk[f].els[i].attrib[a] = dummyNameToRealName[n]
                    /\ DocAtWalkStart(f).els[i].text = n
                          => disk[f].els[i].text = dummyNameToRealName[n]

(* C4 as stated: a placeholder entry of the base table whose id no split    *)
(* declares never makes the function raise, keeps its placeholder name in  *)
(* the merged table (from step 3, which writes it, on), and the references *)
(* to it are as they were when the function has ended.                     *)
C4_UnresolvedUntouched ==
    (pc \in {"step4", "walk", "done", "raised"} /\ HasPublic) =>
        \A i \in 1..Len(BaseEntries0) :
            LET e == BaseEntries0[i] IN
            (/\ IsDeclaration(e)
             /\ StartsWith(e.attrib[Plain("name")], Prefix)
             /\ Declaring(e.attrib[Plain("id")]) = {}) =>
                /\ raisedKey # e.attrib[Plain("name")]
                /\ WrittenEntries[i].attrib[Plain("name")] = e.attrib[Plain("name")]
                /\ Terminated =>
                   \A f \in ParsedFiles \ {PublicXml} : \A j \in 1..Len(disk0[f].els) :
                      /\ \A a \in DOMAIN disk0[f].els[j].attrib :
                            (\/ IsRefTo(disk0[f].els[j].attrib[a], e.attrib[Plain("name")])
                             \/ disk0[f].els[j].attrib[a] = e.attrib[Plain("name")])
                            => disk[f].els[j].attrib[a] = disk0[f].els[j].attrib[a]
                      /\ IsRefTo(disk0[f].els[j].text, e.attrib[Plain("name")])
                            => disk[f].els[j].text = disk0[f].els[j].text

(* C5 as stated: the pass applied again, with the same map, to the tree the *)
(* pass has rewritten raises nothing, counts no replacement and changes no *)
(* document.                                                               *)
C5_RewriteIdempotent ==
    (pc = "done" /\ HasPublic) =>
        \A f \in DOMAIN disk :
            LET r == RewriteFile(f, disk[f], dummyNameToRealName)
            IN  r.status # "keyerror" /\ r.n = 0 /\ r.doc = disk[f]

-----------------------------------------------------------------------------
(* copySplitApkFiles.  A path below a tree's root is the directory of the  *)
(* file followed by "/" and its name; the two startswith tests compare     *)
(* characters, so they look at the first tokens of the path only.          *)
ApktoolYml == File(<<>>, "apktool", ".yml")
Path(f) == f.dir \o <<"/", f.name, f.ext>>
UnderOriginal(root) == Len(root) >= 2 /\ root[1] = "/" /\ root[2] = "original"
StartsWithRes(p) == Len(p) >= 2 /\ p[1] = "/" /\ p[2] = "res"
Parent(d) ==
    LET above == {a \in Ancestors(d) : Len(a) < Len(d)}
    IN  IF above = {} THEN <<>>
        ELSE CHOOSE a \in above : \A b \in above : Len(b) <= Len(a)

(* the files of a split tree that shutil.move takes to the base tree *)
Moved(tree) ==
    {f \in DOMAIN tree :
        /\ ~UnderOriginal(f.dir)
        /\ f \notin {ManifestXml, ApktoolYml}
        /\ ~(Lower(f.ext) = ".xml" /\ StartsWithRes(Path(f)))}

(* the directories of a split tree that os.mkdir makes where missing *)
Created(tree) == {d \in DirsOf(tree) : ~UnderOriginal(Parent(d))}

(* the loop over splitapkpaths; acc is [status, disk, dirs, splits].  With  *)
(* no base tree on disk the first mkdir or move raises FileNotFoundError   *)
RECURSIVE CopySplitApkFiles(_, _)
CopySplitApkFiles(splits, acc) ==
    IF splits = <<>> \/ acc.status = "raised" THEN acc
    ELSE LET t == Head(splits)
             m == Moved(t)
         IN  IF acc.disk = EmptyTree /\ (m # {} \/ Created(t) # {})
             THEN [acc EXCEPT !.status = "raised"]
             ELSE CopySplitApkFiles(Tail(splits),
                    [status |-> "done",
                     disk |-> [f \in DOMAIN acc.disk \cup m |->
                                  IF f \in m THEN t[f] ELSE acc.disk[f]],
                     dirs |-> acc.dirs \cup Created(t),
                     splits |-> Append(acc.splits, [f \in DOMAIN t \ m |-> t[f]])])

-----------------------------------------------------------------------------
(* rawREReplace and its two uses *)
(* re.sub(r'(&amp)([^;])', r'\1;\2'): a match takes the character after    *)
(* "&amp" with it, so the token that follows is copied and not matched;    *)
(* in a file "&amp" is always followed by a character, at the least by the *)
(* quote or the tag that ends the value                                    *)
RECURSIVE FixAmp(_)
FixAmp(val) ==
    IF val = <<>> THEN <<>>
    ELSE IF Head(val) = "&amp" /\ Len(val) = 1 THEN <<"&amp", ";">>
    ELSE IF Head(val) = "&amp" /\ val[2] # ";"
    THEN <<"&amp", ";", val[2]>> \o FixAmp(Tail(Tail(val)))
    ELSE <<Head(val)>> \o FixAmp(Tail(val))

(* re.sub('@android', '@*android') *)
RECURSIVE FixAndroid(_)
FixAndroid(val) ==
    IF val = <<>> THEN <<>>
    ELSE IF Head(val) = "@" /\ Len(val) > 1 /\ val[2] = "android"
    THEN <<"@", "*", "android">> \o FixAndroid(Tail(Tail(val)))
    ELSE <<Head(val)>> \o FixAndroid(Tail(val))

SubDoc(doc, Sub(_)) ==
    [doc EXCEPT !.els =
        [i \in 1..Len(doc.els) |->
            [doc.els[i] EXCEPT
                !.attrib = [a \in DOMAIN doc.els[i].attrib |-> Sub(doc.els[i].attrib[a])],
                !.text = IF doc.els[i].text = None THEN None ELSE Sub(doc.els[i].text)]]]

(* the whole function on a tree d: [status, disk, wrote] *)
RawREReplace(d, f, Sub(_)) ==
    IF f \in DOMAIN d
    THEN [status |-> "done", disk |-> [d EXCEPT ![f] = SubDoc(d[f], Sub)],
          wrote |-> SubDoc(d[f], Sub) # d[f]]
    ELSE [status |-> "aborted", disk |-> d, wrote |-> FALSE]

(* os.walk(os.path.join(dir, "res")): the files below the directory res *)
UnderRes(f) ==
    /\ Len(f.dir) >= 2
    /\ SubSeq(f.dir, 1, 2) = Res
    /\ (Len(f.dir) = 2 \/ f.dir[3] = "/")

RECURSIVE FixPrivateResources(_, _)
FixPrivateResources(d, todo) ==
    IF todo = {} THEN d
    ELSE LET f == CHOOSE g \in todo : TRUE
         IN  FixPrivateResources(RawREReplace(d, f, FixAndroid).disk, todo \ {f})

XmlUnderRes(d) == {f \in DOMAIN d : UnderRes(f) /\ IsXmlFile(f)}

(* build up to the call of apktool: the tree handed to apktool b *)
Build(d) == FixPrivateResources(d, XmlUnderRes(d))

-----------------------------------------------------------------------------
(* enableUserCerts on what apktool d makes of the archive: [status, tree].  *)
(* The parse of the manifest, namespaces["android"] and the open() of the  *)
(* new file under res/xml can each raise; nothing catches them.            *)
NetworkSecurityConfigXml == File(ResXml, "network_security_config", ".xml")
NetworkSecurityConfigRef == <<"@", "xml", "/", "network_security_config">>
Certificates(src, p) == Node("certificates", AttrMap({<<Plain("src"), <<src>>>>}), None, p)
NetworkSecurityConfig ==
    [wellFormed |-> TRUE,
     els |-> <<Node("network-security-config", EmptyMap, None, 0),
               Node("base-config", EmptyMap, None, 1),
               Node("trust-anchors", EmptyMap, None, 2),
               Certificates("system", 3), Certificates("user", 3)>>]

SetAttr(el, a, v) ==
    [el EXCEPT !.attrib = [b \in DOMAIN el.attrib \cup {a} |->
                              IF b = a THEN v ELSE el.attrib[b]]]

EnableUserCerts(t) ==
    IF ManifestXml \notin DOMAIN t \/ ~Parses(t[ManifestXml])
    THEN [status |-> "raised", tree |-> t]
    ELSE IF "android" \notin DOMAIN t[ManifestXml].namespaces
    THEN [status |-> "raised", tree |-> t]
    ELSE LET m == t[ManifestXml]
             ns == m.namespaces["android"]
             t1 == [t EXCEPT ![ManifestXml].els =
                       [i \in 1..Len(m.els) |->
                           IF i \in ChildrenOf(m.els, 1) /\ m.els[i].tag = "application"
                           THEN SetAttr(m.els[i], <<ns, "networkSecurityConfig">>,
                                        NetworkSecurityConfigRef)
                           ELSE m.els[i]]]
         IN  IF ResXml \notin DirsOf(t)
             THEN [status |-> "raised", tree |-> t1]
             ELSE [status |-> "done",
                   tree |-> Build([f \in DOMAIN t1 \cup {NetworkSecurityConfigXml} |->
                                      IF f = NetworkSecurityConfigXml
                                      THEN NetworkSecurityConfig ELSE t1[f]])]

-----------------------------------------------------------------------------
(* Inputs of main: the archives "pm path" lists for the package *)
Blob(b) == [wellFormed |-> FALSE, els |-> <<>>, bytes |-> b]
BaseApkName == <<"base.apk">>
SplitApkName(c) == <<"split_config.", c, ".apk">>
EndsWithBaseApk(name) == name[Len(name)] = "base.apk"

AppAttrs(extra) ==
    AttrMap({<<<<AndroidNs, "label">>, Ref("string", AppName)>>} \cup extra)
Flag(a, v) == <<<<AndroidNs, a>>, <<v>>>>
Tree(files) == [f \in {e[1] : e \in files} |-> (CHOOSE e \in files : e[1] = f)[2]]

LayoutMain ==
    Xml(<<Elem("text", Ref("string", P1), <<"\n">>),
          Elem("color", <<"@", "android", ":color", "/", "white">>, <<"\n">>)>>)
StringsAmp == Xml(<<Elem("name", AppName, <<"Tom ", "&amp", " Jerry">>)>>)
StringsPlain == Xml(<<Elem("name", AppName, <<"Tom">>)>>)
StylesDup == StylesDoc(<<[tag |-> "style",
                          items |-> <<Item("colorPrimary", "a"),
                                      Item("colorPrimary", "b")>>]>>)
StylesNameless == StylesDoc(<<[tag |-> "style",
                               items |-> <<Node("item", EmptyMap, Ref("color", <<"a">>), 0)>>]>>)

(* a bundle's base: split flags and markers, a dummy name, a bare ampersand *)
BaseA ==
    Tree({<<ManifestXml, ManifestDoc(FALSE, AppAttrs({Flag("isSplitRequired", "true"),
                                                     Flag("extractNativeLibs", "false")}),
                                     <<Splits, SplitsRequired>>, "plain")>>,
          <<ApktoolYml, Blob("yml-base")>>,
          <<PublicXml, Xml(<<Public(I1, P1)>>)>>,
          <<StringsXml, StringsAmp>>,
          <<File(ResLayout, "main", ".xml"), LayoutMain>>})
(* a base without public.xml, with res/xml and duplicate style items *)
BaseB ==
    Tree({<<ManifestXml, ManifestDoc(FALSE, AppAttrs({Flag("extractNativeLibs", "false")}),
                                     <<Splits>>, "plain")>>,
          <<ApktoolYml, Blob("yml-base")>>,
          <<StylesXml, StylesDup>>,
          <<StringsXml, StringsPlain>>,
          <<File(ResXml, "prefs", ".xml"), Xml(<<Elem("key", <<"k">>, <<"\n">>)>>)>>})
(* a base whose styles.xml and manifest the two functions cannot handle *)
BaseC ==
    Tree({<<ManifestXml, ManifestDoc(FALSE, AppAttrs({}), <<>>, "nested")>>,
          <<PublicXml, Xml(<<Public(I1, P1)>>)>>,
          <<StylesXml, StylesNameless>>,
          <<StringsXml, StringsPlain>>})
(* a base with a reference to a dummy name its public.xml does not declare *)
BaseD ==
    Tree({<<ManifestXml, ManifestDoc(FALSE, AppAttrs({}), <<>>, "none")>>,
          <<PublicXml, Xml(<<Public(I1, P1)>>)>>,
          <<File(ResLayout, "extra", ".xml"),
            Xml(<<Elem("text", Ref("string", P3), <<"\n">>)>>)>>})
(* a base without strings.xml *)
BaseG ==
    Tree({<<ManifestXml, ManifestDoc(FALSE, AppAttrs({Flag("isSplitRequired", "true")}),
                                     <<SplitsRequired>>, "none")>>,
          <<StylesXml, StylesDup>>})

SplitManifest == ManifestDoc(FALSE, AppAttrs({}), <<>>, "none")
LibDir == <<"/", "lib", "/", "arm64-v8a">>
Split1 ==
    Tree({<<ManifestXml, SplitManifest>>,
          <<ApktoolYml, Blob("yml-1")>>,
          <<PublicXml, Xml(<<Public(I1, AppName)>>)>>,
          <<StringsXml, StringsPlain>>,
          <<File(LibDir, "libfoo", ".so"), Blob("so-1")>>,
          <<File(<<"/", "original", "/", "META-INF">>, "MANIFEST", ".MF"), Blob("mf-1")>>})
Split2 ==
    Tree({<<ManifestXml, SplitManifest>>,
          <<ApktoolYml, Blob("yml-2")>>,
          <<PublicXml, Xml(<<Public(I1, Title)>>)>>,
          <<File(LibDir, "libfoo", ".so"), Blob("so-2")>>,
          <<File(Res \o <<"/", "drawable-xhdpi">>, "icon", ".png"), Blob("png-2")>>})

(* a split whose directories "original2" and "resources" are neighbours of *)
(* "original" and "res", with a manifest of its own below assets           *)
Split3 ==
    Tree({<<ManifestXml, SplitManifest>>,
          <<ApktoolYml, Blob("yml-3")>>,
          <<PublicXml, Xml(<<Public(I1, AppName)>>)>>,
          <<File(<<"/", "assets">>, "data", ".bin"), Blob("bin-3")>>,
          <<File(<<"/", "assets">>, "AndroidManifest", ".xml"), SplitManifest>>,
          <<File(<<"/", "original", "2">>, "keep", ".bin"), Blob("keep-3")>>,
          <<File(<<"/", "res", "ources">>, "cfg", ".xml"), StringsPlain>>,
          <<File(<<"/", "res", "ources">>, "font", ".ttf"), Blob("ttf-3")>>,
          <<File(<<"/", "original", "/", "META-INF">>, "MANIFEST", ".MF"), Blob("mf-3")>>})

Archive(n, t) == [name |-> n, tree |-> t]
Base(t) == Archive(BaseApkName, t)
S1 == Archive(SplitApkName("arm64_v8a"), Split1)
S2 == Archive(SplitApkName("xhdpi"), Split2)
S3 == Archive(SplitApkName("en"), Split3)
PackageChoices ==
    { <<Base(BaseA)>>, <<Base(BaseB)>>,
      <<Base(BaseA), S1>>, <<Base(BaseA), S1, S2>>, <<S1, Base(BaseA)>>,
      <<Base(BaseB), S1>>, <<Base(BaseC), S1>>, <<Base(BaseD), S1>>, <<Base(BaseG), S2>>,
      <<Base(BaseA), S3>> }
ArgChoices ==
    { NoArgs,
      [NoArgs EXCEPT !.disable_styles_hack = TRUE],
      [NoArgs EXCEPT !.extract_only = TRUE],
      [NoArgs EXCEPT !.no_enable_user_certs = TRUE],
      [NoArgs EXCEPT !.save_apk = TRUE] }

-----------------------------------------------------------------------------
(* main from the pull of the archives on.  What main does before that      *)
(* (checkDependencies, verifyPackageName, getAPKPathsForPackage) reads the *)
(* device and changes nothing.  stage is the call in progress; "exit0" is  *)
(* the return of main, "exit1" abort()'s sys.exit(1), "raised" an          *)
(* exception nothing catches.                                              *)
InitMain ==
    /\ localapks \in PackageChoices
    /\ args \in ArgChoices
    /\ stage = "getTargetAPK"
    /\ apkIdx = 0
    /\ disk = EmptyTree
    /\ basedirs = {}
    /\ walk = <<>>
    /\ splitapkpaths = <<>>
    /\ disk0 = EmptyTree
    /\ FixLocalsIdle
    /\ dupes = 0
    /\ written = {}
    /\ pc = "start"
    /\ apkfile = NoApk
    /\ savedapk = NoApk
    /\ calls = <<>>
    /\ device = Original

Call(cmd, rc) == [cmd |-> cmd, rc |-> rc]
Ran(cmd, rc) == \E i \in 1..Len(calls) : calls[i] = Call(cmd, rc)
functionVars == <<disk, walk, splitapkpaths, disk0, fixLocals, dupes, written, pc>>

(* a variant of SingleApk that sends every package through combineSplitAPKs *)
SingleApkNever(apks) == FALSE

(* getTargetAPK line 320: one archive is returned as it was pulled *)
SingleApk(apks) == Len(apks) = 1

(* a variant of Then that patches the manifest after the build *)
ThenManifestLast(s, a) ==
    CASE s = "decompile" -> "copySplitApkFiles"
      [] s = "copySplitApkFiles" -> "fixPublicResourceIDs"
      [] s = "fixPublicResourceIDs" ->
            IF a.disable_styles_hack THEN "rawREReplace"
            ELSE "hackRemoveDuplicateStyleEntries"
      [] s = "hackRemoveDuplicateStyleEntries" -> "rawREReplace"
      [] s = "rawREReplace" -> "build"
      [] s = "build" -> "disableApkSplitting"
      [] s = "disableApkSplitting" -> "save"

(* the statements of combineSplitAPKs in their order: the call that        *)
(* follows the call s when s returns; "save" is the return to main         *)
Then(s, a) ==
    CASE s = "decompile" -> "copySplitApkFiles"
      [] s = "copySplitApkFiles" -> "fixPublicResourceIDs"
      [] s = "fixPublicResourceIDs" ->
            IF a.disable_styles_hack THEN "disableApkSplitting"
            ELSE "hackRemoveDuplicateStyleEntries"
      [] s = "hackRemoveDuplicateStyleEntries" -> "disableApkSplitting"
      [] s = "disableApkSplitting" -> "rawREReplace"
      [] s = "rawREReplace" -> "build"
      [] s = "build" -> "save"

(* the same for main, from the return of getTargetAPK on *)
ThenMain(s, a) ==
    CASE s = "save" -> IF a.extract_only THEN "exit0" ELSE "objection"
      [] s = "objection" -> IF a.no_enable_user_certs THEN "uninstall" ELSE "enableUserCerts"
      [] s = "enableUserCerts" -> "uninstall"
      [] s = "uninstall" -> "install"
      [] s = "install" -> "exit0"


(* a variant of Abort that prints the message and returns to its caller *)
AbortReturns(next) == next

(* abort: sys.exit(1) ends the program; the caller does not go on to next *)
Abort(next) == "exit1"

(* getTargetAPK: adb pull of every archive; k is the first pull that fails, *)
(* 0 if none does                                                          *)
Pull ==
    /\ stage = "getTargetAPK"
    /\ \E k \in 0..Len(localapks) :
         IF k > 0
         THEN /\ calls' = calls \o [i \in 1..k |-> Call("adb pull", IF i = k THEN 1 ELSE 0)]
              /\ stage' = Abort(stage)
              /\ UNCHANGED <<apkfile, apkIdx>>
         ELSE /\ calls' = calls \o [i \in 1..Len(localapks) |-> Call("adb pull", 0)]
              /\ IF SingleApk(localapks)
                 THEN /\ apkfile' = Apk(localapks[1].tree)
                      /\ stage' = "save"
                      /\ UNCHANGED apkIdx
                 ELSE /\ stage' = "decompile"
                      /\ apkIdx' = 1
                      /\ UNCHANGED apkfile
    /\ UNCHANGED <<functionVars, args, localapks, basedirs, savedapk, device>>

(* combineSplitAPKs lines 347-361: one turn of the loop.  apkdir is the     *)
(* base directory only for the archive named base.apk                      *)
Decompile ==
    /\ stage = "decompile"
    /\ \E rc \in {0, 1} :
         /\ calls' = Append(calls, Call("apktool d", rc))
         /\ IF rc # 0
            THEN /\ stage' = Abort(stage)
                 /\ UNCHANGED <<disk, basedirs, splitapkpaths, apkIdx>>
            ELSE LET apk == localapks[apkIdx]
                 IN  /\ IF apk.name = BaseApkName
                        THEN disk' = apk.tree /\ basedirs' = DirsOf(apk.tree)
                        ELSE UNCHANGED <<disk, basedirs>>
                     /\ splitapkpaths' = IF ~EndsWithBaseApk(apk.name)
                                         THEN Append(splitapkpaths, apk.tree)
                                         ELSE splitapkpaths
                     /\ apkIdx' = apkIdx + 1
                     /\ stage' = IF apkIdx = Len(localapks) THEN Then(stage, args)
                                 ELSE stage
    /\ UNCHANGED <<walk, disk0, fixLocals, dupes, written, pc, args, localapks,
                   apkfile, savedapk, device>>

(* the orders in which os.walk can yield a set of files *)
WalkOrders(files) ==
    {w \in [1..Cardinality(files) -> files] : Injective(w) /\ WalkOrder(w)}

(* copySplitApkFiles, and the call of fixPublicResourceIDs it is followed   *)
(* by: the walk of step 4 meets the files below res in an order of os.walk *)
CopySplit ==
    /\ stage = "copySplitApkFiles"
    /\ LET r == CopySplitApkFiles(splitapkpaths,
                    [status |-> "done", disk |-> disk, dirs |-> basedirs, splits |-> <<>>])
       IN  IF r.status = "raised"
           THEN /\ stage' = "raised"
                /\ UNCHANGED <<disk, basedirs, splitapkpaths, walk, disk0>>
           ELSE /\ disk' = r.disk
                /\ basedirs' = r.dirs
                /\ splitapkpaths' = r.splits
                /\ stage' = Then(stage, args)
                /\ walk' \in WalkOrders({f \in DOMAIN r.disk : UnderRes(f)})
                /\ disk0' = r.disk
    /\ UNCHANGED <<fixLocals, dupes, written, pc, args, localapks, apkIdx, apkfile,
                   savedapk, calls, device>>

(* the three functions that work on the base tree *)
BaseTreeCalls == {"fixPublicResourceIDs", "hackRemoveDuplicateStyleEntries",
                  "disableApkSplitting"}

FixPublic == stage = "fixPublicResourceIDs" /\ NextFix
Styles == stage = "hackRemoveDuplicateStyleEntries" /\ NextStyles
Manifest == stage = "disableApkSplitting" /\ NextManifest

Return ==
    /\ stage \in BaseTreeCalls
    /\ pc = "done"
    /\ stage' = Then(stage, args)
    /\ pc' = "start"
    /\ UNCHANGED <<disk, walk, splitapkpaths, disk0, fixLocals, dupes, written, args,
                   localapks, apkIdx, basedirs, apkfile, savedapk, calls, device>>

Crash ==
    /\ stage \in BaseTreeCalls
    /\ pc = "raised"
    /\ stage' = "raised"
    /\ UNCHANGED <<functionVars, args, localapks, apkIdx, basedirs, apkfile, savedapk,
                   calls, device>>

(* combineSplitAPKs line 383: the ampersand fix on strings.xml *)
Ampersands ==
    /\ stage = "rawREReplace"
    /\ LET r == RawREReplace(disk, StringsXml, FixAmp)
       IN  /\ disk' = r.disk
           /\ written' = IF r.wrote THEN written \cup {StringsXml} ELSE written
           /\ stage' = IF r.status = "aborted" THEN Abort(Then(stage, args)) ELSE Then(stage, args)
    /\ UNCHANGED <<walk, splitapkpaths, disk0, fixLocals, dupes, pc, args, localapks,
                   apkIdx, basedirs, apkfile, savedapk, calls, device>>

(* build(baseapkdir) and the return of combineSplitAPKs *)
BuildBase ==
    /\ stage = "build"
    /\ disk' = Build(disk)
    /\ written' = written \cup {f \in DOMAIN disk : Build(disk)[f] # disk[f]}
    /\ \E rc \in {0, 1} :
         /\ calls' = Append(calls, Call("apktool b", rc))
         /\ IF rc # 0
            THEN stage' = Abort(Then(stage, args)) /\ UNCHANGED apkfile
            ELSE stage' = Then(stage, args) /\ apkfile' = Apk(Build(disk))
    /\ UNCHANGED <<walk, splitapkpaths, disk0, fixLocals, dupes, pc, args, localapks,
                   apkIdx, basedirs, savedapk, device>>

(* main lines 44-51 *)
Save ==
    /\ stage = "save"
    /\ savedapk' = IF args.save_apk \/ args.extract_only THEN apkfile ELSE savedapk
    /\ apkfile' = IF args.extract_only THEN NoApk ELSE apkfile
    /\ stage' = ThenMain(stage, args)
    /\ UNCHANGED <<functionVars, args, localapks, apkIdx, basedirs, calls, device>>

(* main lines 54-63: objection patchapk, tried again without               *)
(* --skip-resources when it fails; its output replaces the archive         *)
Objection ==
    /\ stage = "objection"
    /\ \E rcs \in {<<0>>, <<1, 0>>, <<1, 1>>} :
         /\ calls' = calls \o [i \in 1..Len(rcs) |-> Call("objection patchapk", rcs[i])]
         /\ IF rcs[Len(rcs)] # 0
            THEN stage' = Abort(ThenMain(stage, args)) /\ UNCHANGED apkfile
            ELSE stage' = ThenMain(stage, args) /\ apkfile' = [apkfile EXCEPT !.objection = TRUE]
    /\ UNCHANGED <<functionVars, args, localapks, apkIdx, basedirs, savedapk, device>>

(* enableUserCerts: everything it makes lies in its own temporary          *)
(* directory, which is gone when it returns; apkfile is not written.  k is *)
(* the first of its four commands that fails, 0 if none does.              *)
UserCertsCommands == <<"apktool d", "apktool b", "zipalign", "objection signapk">>
UserCerts ==
    /\ stage = "enableUserCerts"
    /\ \E k \in 0..Len(UserCertsCommands) :
         LET r == EnableUserCerts(apkfile.tree)
             n == IF k = 1 THEN 1
                  ELSE IF r.status = "raised" THEN 1
                  ELSE IF k = 0 THEN Len(UserCertsCommands) ELSE k
         IN  /\ calls' = calls \o [i \in 1..n |->
                             Call(UserCertsCommands[i], IF i = k THEN 1 ELSE 0)]
             /\ stage' = IF k = 1 THEN Abort(ThenMain(stage, args))
                         ELSE IF r.status = "raised" THEN "raised"
                         ELSE IF k = 0 THEN ThenMain(stage, args) ELSE Abort(ThenMain(stage, args))
    /\ UNCHANGED <<functionVars, args, localapks, apkIdx, basedirs, apkfile, savedapk,
                   device>>

Uninstall ==
    /\ stage = "uninstall"
    /\ \E rc \in {0, 1} :
         /\ calls' = Append(calls, Call("adb uninstall", rc))
         /\ IF rc # 0
            THEN stage' = Abort(ThenMain(stage, args)) /\ UNCHANGED device
            ELSE stage' = ThenMain(stage, args) /\ device' = [state |-> "absent", apk |-> NoApk]
    /\ UNCHANGED <<functionVars, args, localapks, apkIdx, basedirs, apkfile, savedapk>>

Install ==
    /\ stage = "install"
    /\ \E rc \in {0, 1} :
         /\ calls' = Append(calls, Call("adb install", rc))
         /\ IF rc # 0
            THEN stage' = Abort(ThenMain(stage, args)) /\ UNCHANGED device
            ELSE stage' = ThenMain(stage, args) /\ device' = [state |-> "patched", apk |-> apkfile]
    /\ UNCHANGED <<functionVars, args, localapks, apkIdx, basedirs, apkfile, savedapk>>

NextMain ==
    \/ Pull \/ Decompile \/ CopySplit \/ FixPublic \/ Styles \/ Manifest \/ Return
    \/ Crash \/ Ampersands \/ BuildBase \/ Save \/ Objection \/ UserCerts
    \/ Uninstall \/ Install

SpecMain == InitMain /\ [][NextMain]_vars

-----------------------------------------------------------------------------
(* Claims about the pipeline *)
CombineStages == {"decompile", "copySplitApkFiles", "rawREReplace", "build"}
                    \cup BaseTreeCalls
Pulled == localapks[1].tree
HasSplitFlag(doc) ==
    \E i \in Applications(doc) : HasAttr(doc.els[i], <<AndroidNs, "isSplitRequired">>)
SetsNativeLibs(doc) ==
    \A i \in Applications(doc) :
        HasAttr(doc.els[i], <<AndroidNs, "extractNativeLibs">>)
            => doc.els[i].attrib[<<AndroidNs, "extractNativeLibs">>] = <<"true">>

CombineRank ==
    CASE stage = "getTargetAPK" -> 0
      [] stage = "decompile" -> 1
      [] stage = "copySplitApkFiles" -> 2
      [] stage = "fixPublicResourceIDs" -> IF pc \in {"start", "step2", "step3"} THEN 3 ELSE 4
      [] stage = "hackRemoveDuplicateStyleEntries" -> 5
      [] stage = "disableApkSplitting" -> 6
      [] stage = "rawREReplace" -> 7
      [] stage = "build" -> 8
      [] OTHER -> 9
PcRank ==
    CASE pc = "start" -> 0 [] pc = "step2" -> 1 [] pc = "step3" -> 2
      [] pc = "step4" -> 3 [] pc = "walk" -> 4 [] OTHER -> 5
Recompiled == \E i \in 1..Len(calls) : calls[i].cmd = "apktool b"

(* C10: in every run of combineSplitAPKs the stages come in the order      *)
(* decompile of all archives, merge, identifier resolution, reference      *)
(* rewrite, style dedupe (unless disabled), manifest patch, recompile: a   *)
(* stage is entered only from the stage before it and only when that one   *)
(* has completed, inside a stage every step moves forward, no stage is     *)
(* entered again, and apktool b is never run before the manifest patch     *)
(* has written the manifest                                                *)
C10_StageOrder ==
    /\ [](/\ stage = "copySplitApkFiles" => apkIdx = Len(localapks) + 1
          /\ stage = "hackRemoveDuplicateStyleEntries" => ~args.disable_styles_hack
          /\ stage \in {"rawREReplace", "build"} => ManifestXml \in written
          /\ (Len(localapks) > 1 /\ Recompiled) => ManifestXml \in written)
    /\ [][/\ CombineRank' >= CombineRank
          /\ (CombineRank' > CombineRank /\ CombineRank' < 9)
                => \/ CombineRank' = CombineRank + 1
                   \/ /\ CombineRank = 4
                      /\ CombineRank' = 6
                      /\ args.disable_styles_hack
          /\ (stage' # stage /\ stage = "decompile" /\ CombineRank' < 9)
                => apkIdx = Len(localapks)
          /\ (stage' # stage /\ stage \in BaseTreeCalls /\ CombineRank' < 9)
                => pc = "done"
          /\ stage' = stage
                => \/ apkIdx' > apkIdx
                   \/ PcRank' > PcRank
                   \/ walkIdx' > walkIdx]_vars

(* C10 witness: a bundle has gone through every stage, the style dedupe    *)
(* included, and combineSplitAPKs has returned the rebuilt archive         *)
C10_Witness ==
    /\ Len(localapks) > 1
    /\ ~args.disable_styles_hack
    /\ stage = "save"
    /\ apkfile = Apk(disk)
    /\ {PublicXml, ManifestXml} \subseteq written
    /\ Ran("apktool b", 0)

(* the Decompile, Recompile and Sign invocations *)
ToolCommands == {"apktool d", "apktool b", "zipalign", "objection signapk"}
Failed(i) == calls[i].cmd \in ToolCommands /\ calls[i].rc # 0

(* C11: when apktool d, apktool b, zipalign or objection signapk returns    *)
(* nonzero the program exits with status 1: the failed invocation is the   *)
(* last command of the run (it is not retried and nothing runs after it),  *)
(* no step is taken from the exit, and the package on the device is the    *)
(* original one, neither adb uninstall nor adb install having been run     *)
C11_ToolFailureFatal ==
    /\ [](\A i \in 1..Len(calls) :
             Failed(i) => /\ i = Len(calls)
                          /\ stage = "exit1"
                          /\ device = Original
                          /\ \A j \in 1..Len(calls) :
                                calls[j].cmd \notin {"adb uninstall", "adb install"})
    /\ [][stage # "exit1"]_vars

(* C11 witness: the recompile of a merged bundle has failed *)
C11_Witness ==
    /\ Len(localapks) > 1
    /\ stage = "exit1"
    /\ Failed(Len(calls))
    /\ calls[Len(calls)].cmd = "apktool b"
    /\ ManifestXml \in written

(* the base tree as apktool d made it *)
DecompiledBase ==
    localapks[CHOOSE i \in 1..Len(localapks) : localapks[i].name = BaseApkName].tree
(* combineSplitAPKs has aborted and no command had failed: the abort is    *)
(* rawREReplace's, for a missing res/values/strings.xml                    *)
PreconditionAbort ==
    /\ Len(localapks) > 1
    /\ stage = "exit1"
    /\ \A i \in 1..Len(calls) : calls[i].rc = 0

(* C12 as stated: when the merge aborts on a precondition (strings.xml     *)
(* missing at the ampersand fix) the base tree is still the tree apktool d *)
(* produced: no file moved in, no file written                             *)
C12_RejectedBeforeMutation ==
    PreconditionAbort => /\ disk = DecompiledBase
                         /\ written = {}

-----------------------------------------------------------------------------
(* More claims about fixPublicResourceIDs *)
Malformed == {f \in DOMAIN disk0 : IsXmlFile(f) /\ ~Parses(disk0[f])}

(* C13 as stated: a document of the walk that fails to parse is left as it *)
(* is and does not stop the pass: the pass ends normally and every other   *)
(* XML document under res holds what the rewrite of that document alone    *)
(* gives, whether it comes before or after the malformed one               *)
C13_MalformedSkipped ==
    (Terminated /\ HasPublic /\ Malformed # {}) =>
        /\ pc = "done"
        /\ \A f \in Malformed : disk[f] = disk0[f]
        /\ \A g \in {h \in DOMAIN disk0 : IsXmlFile(h)} \ Malformed :
              LET r == RewriteFile(g, DocAtWalkStart(g), dummyNameToRealName)
              IN  r.status = "ok" /\ disk[g] = r.doc

(* the placeholder name a value names, None if it names none: the value is *)
(* '@<type>/<placeholder>' or the bare placeholder                         *)
PlaceholderOf(val) ==
    IF val = None THEN None
    ELSE IF IsDummyRef(val) THEN RefName(val)
    ELSE IF StartsWith(val, Prefix) THEN val
    ELSE None
Unresolved(n) == n # None /\ ~IsResolvedName(n, dummyNameToRealName)

(* C14 as stated: the rewrite never raises, and when it has ended every    *)
(* attribute value and element text under res naming a placeholder that    *)
(* has no resolution, declared in the base table or not, is unchanged      *)
C14_RewriteTotal ==
    /\ pc # "raised"
    /\ (pc = "done" /\ HasPublic) =>
          \A f \in ParsedFiles \ {PublicXml} : \A i \in 1..Len(disk0[f].els) :
              /\ \A a \in DOMAIN disk0[f].els[i].attrib :
                    Unresolved(PlaceholderOf(disk0[f].els[i].attrib[a]))
                    => disk[f].els[i].attrib[a] = disk0[f].els[i].attrib[a]
              /\ (Unresolved(PlaceholderOf(disk0[f].els[i].text))
                    /\ ~IsDrawablesXml(f))
                    => disk[f].els[i].text = disk0[f].els[i].text

(* C15 as stated: when the rewrite has run to its end, in every parseable  *)
(* drawables.xml on disk each element that has a name attribute and had no *)
(* text holds the default colour, whether or not the document held a       *)
(* placeholder reference                                                   *)
C15_NullDrawablesPatched ==
    (pc = "done" /\ HasPublic) =>
        \A f \in ParsedFiles : IsDrawablesXml(f) =>
            \A i \in 1..Len(disk0[f].els) :
                (HasAttr(disk0[f].els[i], Plain("name")) /\ disk0[f].els[i].text = None)
                => disk[f].els[i].text = NULL_DECODED_DRAWABLE_COLOR

-----------------------------------------------------------------------------
(* A claim about copySplitApkFiles *)
(* the name of the directory directly below the root that d lies in *)
FirstSegment(d) ==
    IF d = <<>> THEN <<>>
    ELSE SubSeq(d, 2, MinOf({k \in 2..Len(d) : k = Len(d) \/ d[k + 1] = "/"}))

(* the decompiled trees of the archives that are splits, as pulled *)
SplitTrees ==
    LET idx == {i \in 1..Len(localapks) : ~EndsWithBaseApk(localapks[i].name)}
    IN  {localapks[i].tree : i \in idx}

(* the files C16 says are moved: outside the directory "original", not the *)
(* root manifest or apktool.yml, not an .xml file below the directory "res" *)
ToMove(t) ==
    {f \in DOMAIN t :
        /\ FirstSegment(f.dir) # <<"original">>
        /\ f \notin {ManifestXml, ApktoolYml}
        /\ ~(IsXmlFile(f) /\ FirstSegment(f.dir) = <<"res">>)}

(* copySplitApkFiles has returned and nothing has touched the tree since *)
Merged == stage = "fixPublicResourceIDs" /\ pc = "start"

(* what is left in the directory of the split decompiled from t *)
LeftOf(t) ==
    {f \in DOMAIN t : \E i \in 1..Len(splitapkpaths) :
        f \in DOMAIN splitapkpaths[i] /\ splitapkpaths[i][f] = t[f]}

(* C16 as stated: after the merge every file of a split that is outside    *)
(* "original", is not the root manifest or apktool.yml and is not an .xml  *)
(* file below "res" is in the base tree at its relative path, with its     *)
(* directories made, and is gone from the split; every other file of the   *)
(* split is where it was; the base manifest, the base apktool.yml and the  *)
(* base's .xml files below res are as decompiled.  Directories named       *)
(* "original2" or "resources" count as outside "original" and "res"        *)
C16_MergeExact ==
    Merged =>
        /\ \A t \in SplitTrees : \A f \in DOMAIN t :
              IF f \in ToMove(t)
              THEN /\ f \in DOMAIN disk
                   /\ \E u \in SplitTrees : f \in ToMove(u) /\ disk[f] = u[f]
                   /\ Ancestors(f.dir) \subseteq basedirs
                   /\ f \notin LeftOf(t)
              ELSE f \in LeftOf(t)
        /\ \A f \in DOMAIN DecompiledBase :
              (f \in {ManifestXml, ApktoolYml} \/ (IsXmlFile(f) /\ UnderRes(f)))
              => f \in DOMAIN disk /\ disk[f] = DecompiledBase[f]

-----------------------------------------------------------------------------
(* A claim about step 1 of fixPublicResourceIDs *)
(* the base entries that declare the placeholder name n, by position *)
Carrying(n) ==
    {i \in 1..Len(BaseEntries0) :
        IsDeclaration(BaseEntries0[i]) /\ BaseEntries0[i].attrib[Plain("name")] = n}
PlaceholderNames ==
    {BaseEntries0[i].attrib[Plain("name")] :
        i \in {k \in 1..Len(BaseEntries0) :
                 IsDeclaration(BaseEntries0[k])
                 /\ StartsWith(BaseEntries0[k].attrib[Plain("name")], Prefix)}}
FirstId(n) == BaseEntries0[MinOf(Carrying(n))].attrib[Plain("id")]
FirstIds == {FirstId(n) : n \in PlaceholderNames}
(* the ids of the entries that repeat a placeholder name already carried   *)
(* by an earlier entry, and are not the first id of any placeholder        *)
LaterIds(n) == {BaseEntries0[i].attrib[Plain("id")] : i \in Carrying(n)} \ FirstIds
StepOneDone == HasPublic /\ pc # "start"

(* C17 as stated: of the base entries carrying one placeholder name only   *)
(* the first is recorded: the id of a later one is no key of idToDummyName,*)
(* and a placeholder whose first id no split declares stays unresolved     *)
C17_FirstEntryOnly ==
    StepOneDone =>
        \A n \in PlaceholderNames :
            /\ \A id \in LaterIds(n) : id \notin DOMAIN idToDummyName
            /\ (Resolved /\ Declaring(FirstId(n)) = {}) => dummyNameToRealName[n] = None

====
